---- MODULE Spec2Model ----
(***************************************************************************)
(* Model of the `run` command of destiel_news_bot (src/src/main.rs): the   *)
(* polling loop that requests every configured news source through         *)
(* buffer_unordered(2), drops stories whose story_url was seen before,     *)
(* renders an image for each remaining story and posts it to tumblr, then  *)
(* sleeps 30 seconds and starts over.                                      *)
(***************************************************************************)
EXTENDS Integers, Sequences, FiniteSets, TLC

\* ---------------------------------------------------------------- bounds
\* The largest number of entries of config.news_sources that is explored.
MaxSources == 3
\* The number of distinct assets the BBC endpoint may answer with.
NumAssets == 3
\* The number of distinct assetUri values among those assets.
NumUris == 2
\* Lifetime counters saturate at this value.
MaxCount == 2
\* The largest config.image_gen_cfg.max_font_size that is explored.
MaxFontSize == 3
\* The largest width and height of headline_bounds, in pixels.
MaxBoundsSide == 3
\* The largest number of characters of a headline handed to generate_image.
MaxTextLen == 4

\* ------------------------------------------------------ program constants
\* .buffer_unordered(2)
BufferLimit == 2

\* tokio::time::sleep(std::time::Duration::from_secs(30))
SleepSeconds == 30

\* --------------------------------------------------------------- helpers
Min(a, b) == IF a < b THEN a ELSE b

Range(s) == {s[i] : i \in 1..Len(s)}

\* ------------------------------------------------------------- news.rs
\* BBCApiResponseAsset { asset_id, asset_uri, headline }
BBCApiResponseAsset(i) ==
    [assetId  |-> ToString(i),
     assetUri |-> "/news/uk-" \o ToString(((i - 1) % NumUris) + 1),
     headline |-> "Headline " \o ToString(i)]

Assets == {BBCApiResponseAsset(i) : i \in 1..NumAssets}

NoAsset == [assetId |-> "", assetUri |-> "", headline |-> ""]

\* What one GET of a source can come back with: a transport or decode
\* error, or a decoded BBCApiResponse whose asset is None or Some(asset).
Responses ==
    {[kind |-> "error", asset |-> NoAsset], [kind |-> "empty", asset |-> NoAsset]}
        \cup {[kind |-> "asset", asset |-> a] : a \in Assets}

NoStory == [id |-> "", headline |-> "", story_url |-> ""]

\* NewsStory { id, headline, story_url } built from an asset.
NewsStory(asset) ==
    [id        |-> "BBC_" \o asset.assetId,
     headline  |-> asset.headline,
     story_url |-> "https://bbc.co.uk" \o asset.assetUri]

\* request_news_source: Err(..) when the request or the decoding fails,
\* Ok(None) when the asset is absent, Ok(Some(story)) otherwise.
request_news_source(response) ==
    CASE response.kind = "error" -> [tag |-> "Err", story |-> NoStory]
      [] response.kind = "empty" -> [tag |-> "None", story |-> NoStory]
      [] OTHER -> [tag |-> "Some", story |-> NewsStory(response.asset)]

Pending == [tag |-> "Pending", story |-> NoStory]

\* No call of generate_image under way.
NoShrinkInput ==
    [max_font_size |-> 0, bounds_width |-> 0, bounds_height |-> 0,
     text_len |-> 0]

\* No response body received.
NoBody == [top |-> {}, asset |-> [kind |-> "none", fields |-> {}, value |-> NoAsset]]

Stories == {NewsStory(a) : a \in Assets}

StoryUrls == {s.story_url : s \in Stories}

\* ------------------------------------------------------------- main.rs
VARIABLES
    pc,              \* where main is: "start", "poll", "dedup", "render",
                     \* "post", "await_post", "sleep", "exited"
    main_result,     \* "running", or the error main returned with
    news_sources,    \* config.news_sources, once loaded
    seen_news_urls,  \* the HashSet of story_url values
    next_source,     \* position of tokio_stream::iter in news_sources
    in_progress,     \* the sources whose request is in the buffer
    collected,       \* the Vec that collect() is building
    cur_stories,     \* cur_stories after the dedup filter
    story_idx,       \* position of `for story in cur_stories`
    image_data,      \* what generate_image wrote for the current story
    posts_in_flight, \* positions whose create_post was sent, not yet returned
    \* observations of the run, not read by the program
    attempts,        \* per source: calls of request_news_source this cycle
    fetch_result,    \* per source: what its request returned this cycle
    rendered,        \* positions generate_image was called for, this cycle
    posted,          \* positions create_post was sent for, this cycle
    log,             \* tracing::error! events of this cycle
    accepted,        \* per story_url: times the dedup filter let it through
    completed,       \* the sources in the order their requests completed,
                     \* this cycle
    error_context,   \* the wrap_err context of the error main returned with
    \* the decoding of one response body, explored on its own (DecodeSpec)
    response_body,   \* the JSON body of a response
    response_result, \* what request_news_source returns for that body
    \* further observations of the run
    attachments,     \* what each create_post of this cycle had attached
    sleep_secs,      \* the duration of the sleep main is in, 0 when in none
    publisher_calls, \* per story_url: create_post calls, and whether one failed
    \* the font-shrinking loop of generate_image, explored on its own
    \* (ShrinkSpec)
    font_size,       \* desc.size(), in units of pango_scale
    shrink_pc,       \* "idle", "loop" or "done"
    shrink_input     \* the config and the text generate_image was called with

vars == <<pc, main_result, news_sources, seen_news_urls, next_source,
          in_progress, collected, cur_stories, story_idx, image_data,
          posts_in_flight, attempts, fetch_result, rendered, posted, log,
          accepted, completed, error_context, response_body, response_result,
          attachments, sleep_secs, publisher_calls, font_size, shrink_pc,
          shrink_input>>

SourceIds == 1..(MaxSources + 1)

Init ==
    /\ pc = "start"
    /\ main_result = "running"
    /\ news_sources = <<>>
    /\ seen_news_urls = {}
    /\ next_source = 1
    /\ in_progress = {}
    /\ collected = <<>>
    /\ cur_stories = <<>>
    /\ story_idx = 1
    /\ image_data = ""
    /\ posts_in_flight = {}
    /\ attempts = [s \in SourceIds |-> 0]
    /\ fetch_result = [s \in SourceIds |-> Pending]
    /\ rendered = <<>>
    /\ posted = <<>>
    /\ log = {}
    /\ accepted = [u \in StoryUrls |-> 0]
    /\ completed = <<>>
    /\ error_context = ""
    /\ response_body = NoBody
    /\ response_result = Pending
    /\ attachments = <<>>
    /\ sleep_secs = 0
    /\ publisher_calls = [u \in StoryUrls |-> [count |-> 0, failed |-> FALSE]]
    /\ font_size = 0
    /\ shrink_pc = "idle"
    /\ shrink_input = NoShrinkInput

\* The wrap_err contexts of load_config: a file that cannot be read, a file
\* that does not parse.
LoadConfigErrors ==
    {"failed to open config file", "failed to parse config file"}

\* load_config(&config_info)?  -- an unreadable or malformed file makes main
\* return the error; otherwise the loop is entered with the sources read.
LoadConfig ==
    /\ pc = "start"
    /\ \E ok \in BOOLEAN, n \in 0..MaxSources :
          IF ok
          THEN /\ news_sources' = [i \in 1..n |-> i]
               /\ pc' = "poll"
               /\ UNCHANGED <<main_result, error_context>>
          ELSE /\ pc' = "exited"
               /\ main_result' = "load_config error"
               /\ error_context' \in LoadConfigErrors
               /\ UNCHANGED news_sources
    /\ UNCHANGED <<seen_news_urls, next_source, in_progress, collected,
                   cur_stories, story_idx, image_data, posts_in_flight,
                   attempts, fetch_result, rendered, posted, log, accepted>>
    /\ UNCHANGED <<completed, response_body, response_result>>
    /\ UNCHANGED <<attachments, sleep_secs, publisher_calls, font_size,
                   shrink_pc, shrink_input>>

\* Variant of CanAdmit without the limit of the buffer.
CanAdmitUnbounded ==
    next_source <= Len(news_sources)

\* buffer_unordered fills its queue first: while fewer than BufferLimit
\* requests are in progress and the source iterator is not exhausted, the
\* next source's request_news_source future is created and pushed.
CanAdmit ==
    /\ next_source <= Len(news_sources)
    /\ Cardinality(in_progress) < BufferLimit

StartRequest ==
    /\ pc = "poll"
    /\ CanAdmit
    /\ in_progress' = in_progress \cup {news_sources[next_source]}
    /\ attempts' = [attempts EXCEPT ![news_sources[next_source]] =
                        Min(@ + 1, MaxCount)]
    /\ next_source' = next_source + 1
    /\ UNCHANGED <<pc, main_result, news_sources, seen_news_urls, collected,
                   cur_stories, story_idx, image_data, posts_in_flight,
                   fetch_result, rendered, posted, log, accepted>>
    /\ UNCHANGED <<completed, error_context, response_body, response_result>>
    /\ UNCHANGED <<attachments, sleep_secs, publisher_calls, font_size,
                   shrink_pc, shrink_input>>

\* Variant of CollectResult in which an Err discards what was collected, as
\* a collect into Result<Vec<_>, _> would.
CollectResultAbortOnErr(vec, result) ==
    IF result.tag = "Err" THEN <<>>
    ELSE IF result.tag = "Some" THEN Append(vec, result.story) ELSE vec

\* Variant of CollectResult that puts a new story in front of the ones
\* collected before it.
CollectResultInFront(vec, result) ==
    IF result.tag = "Some" THEN <<result.story>> \o vec ELSE vec

\* Variant of CollectResult in which Ok(None) and Err(e) put a default
\* (empty) story in the list, as unwrap_or_default would.
CollectResultDefaultStory(vec, result) ==
    Append(vec, result.story)

\* The filter_map after buffer_unordered: Ok(Some(story)) is kept, Ok(None)
\* is dropped, Err(e) is logged with tracing::error! and dropped.
CollectResult(vec, result) ==
    IF result.tag = "Some" THEN Append(vec, result.story) ELSE vec

LogFetch(events, source, result) ==
    IF result.tag = "Err" THEN events \cup {<<"news", source>>} ELSE events

\* Variant of RequestCompletes that polls the requests in progress without
\* filling the free places of the buffer first.
RequestCompletesBeforeFill ==
    /\ pc = "poll"
    /\ \E s \in in_progress, response \in Responses :
          LET result == request_news_source(response) IN
          /\ in_progress' = in_progress \ {s}
          /\ fetch_result' = [fetch_result EXCEPT ![s] = result]
          /\ collected' = CollectResult(collected, result)
          /\ log' = LogFetch(log, s, result)
          /\ completed' = Append(completed, s)
    /\ UNCHANGED <<pc, main_result, news_sources, seen_news_urls, next_source,
                   cur_stories, story_idx, image_data, posts_in_flight,
                   attempts, rendered, posted, accepted>>
    /\ UNCHANGED <<error_context, response_body, response_result>>
    /\ UNCHANGED <<attachments, sleep_secs, publisher_calls, font_size,
                   shrink_pc, shrink_input>>

\* Variant of RequestCompletes in which the story_url is inserted into the
\* seen set as soon as the request completes, while others are in flight.
RequestCompletesMarksSeen ==
    /\ pc = "poll"
    /\ ~CanAdmit
    /\ \E s \in in_progress, response \in Responses :
          LET result == request_news_source(response) IN
          /\ in_progress' = in_progress \ {s}
          /\ fetch_result' = [fetch_result EXCEPT ![s] = result]
          /\ collected' = CollectResult(collected, result)
          /\ log' = LogFetch(log, s, result)
          /\ completed' = Append(completed, s)
          /\ seen_news_urls' =
                IF result.tag = "Some"
                THEN seen_news_urls \cup {result.story.story_url}
                ELSE seen_news_urls
    /\ UNCHANGED <<pc, main_result, news_sources, next_source,
                   cur_stories, story_idx, image_data, posts_in_flight,
                   attempts, rendered, posted, accepted>>
    /\ UNCHANGED <<error_context, response_body, response_result>>
    /\ UNCHANGED <<attachments, sleep_secs, publisher_calls, font_size,
                   shrink_pc, shrink_input>>

\* With the queue filled, the buffer is polled: any one of the requests in
\* progress completes, and its result goes through the filter_map into the
\* collected Vec.
RequestCompletes ==
    /\ pc = "poll"
    /\ ~CanAdmit
    /\ \E s \in in_progress, response \in Responses :
          LET result == request_news_source(response) IN
          /\ in_progress' = in_progress \ {s}
          /\ fetch_result' = [fetch_result EXCEPT ![s] = result]
          /\ collected' = CollectResult(collected, result)
          /\ log' = LogFetch(log, s, result)
          /\ completed' = Append(completed, s)
    /\ UNCHANGED <<pc, main_result, news_sources, seen_news_urls, next_source,
                   cur_stories, story_idx, image_data, posts_in_flight,
                   attempts, rendered, posted, accepted>>
    /\ UNCHANGED <<error_context, response_body, response_result>>
    /\ UNCHANGED <<attachments, sleep_secs, publisher_calls, font_size,
                   shrink_pc, shrink_input>>

\* Variant of CollectDone in which the first Err ends the collection, as
\* try_collect would, whatever is still queued or in progress.
CollectDoneOnFirstErr ==
    /\ pc = "poll"
    /\ \/ next_source > Len(news_sources) /\ in_progress = {}
       \/ log # {}
    /\ pc' = "dedup"
    /\ UNCHANGED <<main_result, news_sources, seen_news_urls, next_source,
                   in_progress, collected, cur_stories, story_idx, image_data,
                   posts_in_flight, attempts, fetch_result, rendered, posted,
                   log, accepted>>
    /\ UNCHANGED <<completed, error_context, response_body, response_result>>
    /\ UNCHANGED <<attachments, sleep_secs, publisher_calls, font_size,
                   shrink_pc, shrink_input>>

\* Variant of CollectDone in which the collection returns as soon as every
\* request was started, without waiting for those still in progress.
CollectDoneWhenAllStarted ==
    /\ pc = "poll"
    /\ next_source > Len(news_sources)
    /\ pc' = "dedup"
    /\ UNCHANGED <<main_result, news_sources, seen_news_urls, next_source,
                   in_progress, collected, cur_stories, story_idx, image_data,
                   posts_in_flight, attempts, fetch_result, rendered, posted,
                   log, accepted>>
    /\ UNCHANGED <<completed, error_context, response_body, response_result>>
    /\ UNCHANGED <<attachments, sleep_secs, publisher_calls, font_size,
                   shrink_pc, shrink_input>>

\* .collect::<Vec<_>>().await returns once the source iterator is exhausted
\* and no request is in progress.
CollectDone ==
    /\ pc = "poll"
    /\ next_source > Len(news_sources)
    /\ in_progress = {}
    /\ pc' = "dedup"
    /\ UNCHANGED <<main_result, news_sources, seen_news_urls, next_source,
                   in_progress, collected, cur_stories, story_idx, image_data,
                   posts_in_flight, attempts, fetch_result, rendered, posted,
                   log, accepted>>
    /\ UNCHANGED <<completed, error_context, response_body, response_result>>
    /\ UNCHANGED <<attachments, sleep_secs, publisher_calls, font_size,
                   shrink_pc, shrink_input>>

\* Variant of DedupFilter that never inserts into the seen set.
RECURSIVE DedupFilterNoInsert(_, _)
DedupFilterNoInsert(stories, seen) ==
    IF stories = <<>>
    THEN [out |-> <<>>, seen |-> seen]
    ELSE LET story == Head(stories)
             rest == DedupFilterNoInsert(Tail(stories), seen)
         IN IF story.story_url \in seen
            THEN rest
            ELSE [out |-> <<story>> \o rest.out, seen |-> rest.seen]

\* Variant of DedupFilter with the test inverted: a story is kept when its
\* story_url is already in the seen set.
RECURSIVE DedupFilterInverted(_, _)
DedupFilterInverted(stories, seen) ==
    IF stories = <<>>
    THEN [out |-> <<>>, seen |-> seen]
    ELSE LET story == Head(stories) IN
         IF story.story_url \notin seen
         THEN DedupFilterInverted(Tail(stories), seen \cup {story.story_url})
         ELSE LET rest == DedupFilterInverted(Tail(stories), seen)
              IN [out |-> <<story>> \o rest.out, seen |-> rest.seen]

\* Variant of DedupFilter that hands the kept stories over in reverse order.
RECURSIVE DedupFilterReversed(_, _)
DedupFilterReversed(stories, seen) ==
    IF stories = <<>>
    THEN [out |-> <<>>, seen |-> seen]
    ELSE LET story == Head(stories) IN
         IF story.story_url \in seen
         THEN DedupFilterReversed(Tail(stories), seen)
         ELSE LET rest == DedupFilterReversed(Tail(stories),
                                              seen \cup {story.story_url})
              IN [out |-> rest.out \o <<story>>, seen |-> rest.seen]

\* The dedup filter_map over cur_stories, in order: a story whose story_url
\* is in seen_news_urls is dropped, any other has its story_url inserted and
\* is kept.
RECURSIVE DedupFilter(_, _)
DedupFilter(stories, seen) ==
    IF stories = <<>>
    THEN [out |-> <<>>, seen |-> seen]
    ELSE LET story == Head(stories) IN
         IF story.story_url \in seen
         THEN DedupFilter(Tail(stories), seen)
         ELSE LET rest == DedupFilter(Tail(stories),
                                      seen \cup {story.story_url})
              IN [out |-> <<story>> \o rest.out, seen |-> rest.seen]

CountUrl(stories, url) ==
    Cardinality({i \in 1..Len(stories) : stories[i].story_url = url})

\* Variant of Dedup in which a cycle without new stories goes back to the
\* top of the loop (`continue`) without reaching the sleep.
DedupContinueWhenEmpty ==
    /\ pc = "dedup"
    /\ LET r == DedupFilter(collected, seen_news_urls) IN
          /\ seen_news_urls' = r.seen
          /\ accepted' = [u \in StoryUrls |->
                             Min(accepted[u] + CountUrl(r.out, u), MaxCount)]
          /\ IF r.out = <<>>
             THEN /\ pc' = "poll"
                  /\ next_source' = 1
                  /\ collected' = <<>>
                  /\ attempts' = [s \in SourceIds |-> 0]
                  /\ fetch_result' = [s \in SourceIds |-> Pending]
                  /\ log' = {}
                  /\ completed' = <<>>
                  /\ UNCHANGED cur_stories
             ELSE /\ pc' = "render"
                  /\ cur_stories' = r.out
                  /\ UNCHANGED <<next_source, collected, attempts,
                                 fetch_result, log, completed>>
    /\ story_idx' = 1
    /\ sleep_secs' = 0
    /\ UNCHANGED <<main_result, news_sources, in_progress, image_data,
                   posts_in_flight, rendered, posted>>
    /\ UNCHANGED <<error_context, response_body, response_result>>
    /\ UNCHANGED <<attachments, publisher_calls, font_size, shrink_pc,
                   shrink_input>>

\* let cur_stories = stories.into_iter().filter(..).collect::<Vec<_>>(), and
\* the `if !cur_stories.is_empty()` that guards the for loop.

Dedup ==
    /\ pc = "dedup"
    /\ LET r == DedupFilter(collected, seen_news_urls) IN
          /\ cur_stories' = r.out
          /\ seen_news_urls' = r.seen
          /\ accepted' = [u \in StoryUrls |->
                             Min(accepted[u] + CountUrl(r.out, u), MaxCount)]
          /\ pc' = IF r.out = <<>> THEN "sleep" ELSE "render"
    /\ story_idx' = 1
    /\ UNCHANGED <<main_result, news_sources, next_source, in_progress,
                   collected, image_data, posts_in_flight, attempts,
                   fetch_result, rendered, posted, log>>
    /\ UNCHANGED <<completed, error_context, response_body, response_result>>
    /\ sleep_secs' = IF DedupFilter(collected, seen_news_urls).out = <<>>
                     THEN SleepSeconds ELSE 0
    /\ UNCHANGED <<attachments, publisher_calls, font_size,
                   shrink_pc, shrink_input>>

\* The ways generate_image returns Err: config.template cannot be opened,
\* it is not a PNG cairo can load, or a cairo call fails (no context).
GenerateImageErrors ==
    {"failed to open template image file", "failed to load template image",
     "cairo error"}

\* Variant of GenerateImage in which the Err of generate_image is dropped
\* (`let _ =` in place of `?`) and the loop body goes on to create_post with
\* the image_data buffer as it is.
GenerateImageIgnoreErr ==
    /\ pc = "render"
    /\ rendered' = Append(rendered, story_idx)
    /\ \E outcome \in {"ok"} \cup GenerateImageErrors :
          image_data' = IF outcome = "ok"
                        THEN cur_stories[story_idx].headline ELSE ""
    /\ pc' = "post"
    /\ UNCHANGED <<main_result, error_context>>
    /\ UNCHANGED <<news_sources, seen_news_urls, next_source, in_progress,
                   collected, cur_stories, story_idx, posts_in_flight,
                   attempts, fetch_result, posted, log, accepted>>
    /\ UNCHANGED <<completed, response_body, response_result>>
    /\ UNCHANGED <<attachments, sleep_secs, publisher_calls, font_size,
                   shrink_pc, shrink_input>>

\* generate_image(&config.image_gen_cfg, &story.headline, &mut image_data)?
\* -- on Err the `?` makes main return that error.
GenerateImage ==
    /\ pc = "render"
    /\ rendered' = Append(rendered, story_idx)
    /\ \E outcome \in {"ok"} \cup GenerateImageErrors :
          IF outcome = "ok"
          THEN /\ image_data' = cur_stories[story_idx].headline
               /\ pc' = "post"
               /\ UNCHANGED <<main_result, error_context>>
          ELSE /\ image_data' = ""
               /\ pc' = "exited"
               /\ main_result' = "generate_image error"
               /\ error_context' = outcome
    /\ UNCHANGED <<news_sources, seen_news_urls, next_source, in_progress,
                   collected, cur_stories, story_idx, posts_in_flight,
                   attempts, fetch_result, posted, log, accepted>>
    /\ UNCHANGED <<completed, response_body, response_result>>
    /\ UNCHANGED <<attachments, sleep_secs, publisher_calls, font_size,
                   shrink_pc, shrink_input>>

\* Variant of CreatePost that sends the post without awaiting it (a spawned
\* task) and goes on with the next story.
CreatePostNotAwaited ==
    /\ pc = "post"
    /\ posts_in_flight' = posts_in_flight \cup {story_idx}
    /\ posted' = Append(posted, story_idx)
    /\ story_idx' = story_idx + 1
    /\ pc' = IF story_idx < Len(cur_stories) THEN "render" ELSE "sleep"
    /\ UNCHANGED <<main_result, news_sources, seen_news_urls, next_source,
                   in_progress, collected, cur_stories, image_data, attempts,
                   fetch_result, rendered, log, accepted>>
    /\ UNCHANGED <<completed, error_context, response_body, response_result>>
    /\ attachments' = Append(attachments, image_data)
    /\ publisher_calls' =
          LET url == cur_stories[story_idx].story_url IN
          [publisher_calls EXCEPT ![url].count = Min(@ + 1, MaxCount)]
    /\ sleep_secs' = IF story_idx < Len(cur_stories) THEN 0 ELSE SleepSeconds
    /\ UNCHANGED <<font_size, shrink_pc, shrink_input>>

\* tumblrclient.create_post(..).add_attachment(image_data, ..).send().await
\* -- the request is sent and main suspends until it returns.
CreatePost ==
    /\ pc = "post"
    /\ posts_in_flight' = posts_in_flight \cup {story_idx}
    /\ posted' = Append(posted, story_idx)
    /\ pc' = "await_post"
    /\ UNCHANGED <<main_result, news_sources, seen_news_urls, next_source,
                   in_progress, collected, cur_stories, story_idx, image_data,
                   attempts, fetch_result, rendered, log, accepted>>
    /\ UNCHANGED <<completed, error_context, response_body, response_result>>
    /\ attachments' = Append(attachments, image_data)
    /\ publisher_calls' =
          LET url == cur_stories[story_idx].story_url IN
          [publisher_calls EXCEPT ![url].count = Min(@ + 1, MaxCount)]
    /\ UNCHANGED <<sleep_secs, font_size, shrink_pc, shrink_input>>

\* Variant of PostReturns in which an Err of create_post is propagated with
\* `?` instead of being logged.
PostReturnsPropagated ==
    /\ pc = "await_post"
    /\ \E i \in posts_in_flight, ok \in BOOLEAN :
          /\ posts_in_flight' = posts_in_flight \ {i}
          /\ log' = IF ok THEN log ELSE log \cup {<<"tumblr", i>>}
          /\ publisher_calls' =
                LET url == cur_stories[i].story_url IN
                [publisher_calls EXCEPT ![url].failed = @ \/ ~ok]
          /\ IF ok
             THEN /\ story_idx' = story_idx + 1
                  /\ pc' = IF story_idx < Len(cur_stories)
                           THEN "render" ELSE "sleep"
                  /\ sleep_secs' = IF story_idx < Len(cur_stories)
                                   THEN 0 ELSE SleepSeconds
                  /\ UNCHANGED main_result
             ELSE /\ pc' = "exited"
                  /\ main_result' = "create_post error"
                  /\ UNCHANGED <<story_idx, sleep_secs>>
    /\ UNCHANGED error_context
    /\ UNCHANGED <<news_sources, seen_news_urls, next_source,
                   in_progress, collected, cur_stories, image_data, attempts,
                   fetch_result, rendered, posted, accepted>>
    /\ UNCHANGED <<completed, response_body, response_result>>
    /\ UNCHANGED <<attachments, font_size, shrink_pc, shrink_input>>

\* Variant of PostReturns in which an Err of create_post takes the story's
\* story_url out of the seen set again, so that a later cycle retries it.
PostReturnsRetryOnErr ==
    /\ pc = "await_post"
    /\ \E i \in posts_in_flight, ok \in BOOLEAN :
          /\ posts_in_flight' = posts_in_flight \ {i}
          /\ log' = IF ok THEN log ELSE log \cup {<<"tumblr", i>>}
          /\ publisher_calls' =
                LET url == cur_stories[i].story_url IN
                [publisher_calls EXCEPT ![url].failed = @ \/ ~ok]
          /\ seen_news_urls' =
                IF ok THEN seen_news_urls
                ELSE seen_news_urls \ {cur_stories[i].story_url}
    /\ story_idx' = story_idx + 1
    /\ pc' = IF story_idx < Len(cur_stories) THEN "render" ELSE "sleep"
    /\ sleep_secs' = IF story_idx < Len(cur_stories) THEN 0 ELSE SleepSeconds
    /\ UNCHANGED <<main_result, news_sources, next_source,
                   in_progress, collected, cur_stories, image_data, attempts,
                   fetch_result, rendered, posted, accepted>>
    /\ UNCHANGED <<completed, error_context, response_body, response_result>>
    /\ UNCHANGED <<attachments, font_size, shrink_pc, shrink_input>>

\* match create_post_result: Err is logged with tracing::error!, anything
\* else with tracing::info!; either way the for loop goes on to the next
\* story, and past the last one to the sleep.
PostReturns ==
    /\ pc = "await_post"
    /\ \E i \in posts_in_flight, ok \in BOOLEAN :
          /\ posts_in_flight' = posts_in_flight \ {i}
          /\ log' = IF ok THEN log ELSE log \cup {<<"tumblr", i>>}
          /\ publisher_calls' =
                LET url == cur_stories[i].story_url IN
                [publisher_calls EXCEPT ![url].failed = @ \/ ~ok]
    /\ story_idx' = story_idx + 1
    /\ pc' = IF story_idx < Len(cur_stories) THEN "render" ELSE "sleep"
    /\ UNCHANGED <<main_result, news_sources, seen_news_urls, next_source,
                   in_progress, collected, cur_stories, image_data, attempts,
                   fetch_result, rendered, posted, accepted>>
    /\ UNCHANGED <<completed, error_context, response_body, response_result>>
    /\ sleep_secs' = IF story_idx < Len(cur_stories) THEN 0 ELSE SleepSeconds
    /\ UNCHANGED <<attachments, font_size, shrink_pc, shrink_input>>

\* Variant of SleepElapses in which the seen set is created inside the loop
\* body, so that every cycle starts with an empty one.
SleepElapsesNewSeenSet ==
    /\ pc = "sleep"
    /\ pc' = "poll"
    /\ seen_news_urls' = {}
    /\ next_source' = 1
    /\ in_progress' = {}
    /\ collected' = <<>>
    /\ cur_stories' = <<>>
    /\ story_idx' = 1
    /\ image_data' = ""
    /\ attempts' = [s \in SourceIds |-> 0]
    /\ fetch_result' = [s \in SourceIds |-> Pending]
    /\ rendered' = <<>>
    /\ posted' = <<>>
    /\ log' = {}
    /\ completed' = <<>>
    /\ UNCHANGED <<main_result, news_sources, posts_in_flight, accepted,
                   error_context, response_body, response_result>>
    /\ attachments' = <<>>
    /\ sleep_secs' = 0
    /\ UNCHANGED <<publisher_calls, font_size, shrink_pc, shrink_input>>

\* tokio::time::sleep(30 s).await elapses and the loop body starts again:
\* everything but seen_news_urls is local to one iteration.
SleepElapses ==
    /\ pc = "sleep"
    /\ pc' = "poll"
    /\ next_source' = 1
    /\ in_progress' = {}
    /\ collected' = <<>>
    /\ cur_stories' = <<>>
    /\ story_idx' = 1
    /\ image_data' = ""
    /\ attempts' = [s \in SourceIds |-> 0]
    /\ fetch_result' = [s \in SourceIds |-> Pending]
    /\ rendered' = <<>>
    /\ posted' = <<>>
    /\ log' = {}
    /\ completed' = <<>>
    /\ UNCHANGED <<main_result, news_sources, seen_news_urls,
                   posts_in_flight, accepted>>
    /\ UNCHANGED <<error_context, response_body, response_result>>
    /\ attachments' = <<>>
    /\ sleep_secs' = 0
    /\ UNCHANGED <<publisher_calls, font_size, shrink_pc, shrink_input>>

Next ==
    \/ LoadConfig
    \/ StartRequest
    \/ RequestCompletes
    \/ CollectDone
    \/ Dedup
    \/ GenerateImage
    \/ CreatePost
    \/ PostReturns
    \/ SleepElapses

Spec == Init /\ [][Next]_vars

\* Every call that was started returns and the sleep elapses: main is the
\* only task of the current_thread runtime and is polled whenever it can
\* make progress.
FairSpec == Spec /\ WF_vars(Next)

\* ================================================================ claims
Urls(stories) == {stories[i].story_url : i \in 1..Len(stories)}

\* The sources whose request of this cycle returned Ok(Some(story)).
SourcesWithStory == {s \in Range(news_sources) : fetch_result[s].tag = "Some"}

\* The sources whose request of this cycle returned Err.
SourcesFailed == {s \in Range(news_sources) : fetch_result[s].tag = "Err"}

\* The positions 1..n as a sequence.
Positions(n) == [i \in 1..n |-> i]

\* main is between the end of the fan-out and the end of the sleep.
AfterFanOut == pc \in {"dedup", "render", "post", "await_post", "sleep"}

\* ---------------------------------------------------------------- C1
\* C1: a story_url passes the dedup filter at most once in the lifetime of
\* the process: never again in a later cycle, and when several sources
\* return the same story_url in one cycle only one of the stories passes.
C1_MonotonicDedup ==
    /\ \A u \in StoryUrls : accepted[u] <= 1
    /\ \A i, j \in 1..Len(cur_stories) :
          i # j => cur_stories[i].story_url # cur_stories[j].story_url

\* Two sources returned the same new story_url in this cycle and one story
\* with it passed, while a third returned a story_url accepted in an earlier
\* cycle, which did not pass.
C1_Witness ==
    /\ pc = "render"
    /\ \E s1, s2, s3 \in SourcesWithStory :
          /\ s1 # s2
          /\ fetch_result[s1].story.story_url = fetch_result[s2].story.story_url
          /\ fetch_result[s1].story.story_url \in Urls(cur_stories)
          /\ fetch_result[s3].story.story_url \notin Urls(cur_stories)
          /\ accepted[fetch_result[s3].story.story_url] = 1

\* ---------------------------------------------------------------- C2
\* C2: whatever the number of configured sources, at most 2 requests are
\* started and not yet completed at any moment of the fan-out.
C2_BoundedConcurrency ==
    Cardinality(in_progress) <= 2

\* Three sources are configured, two requests are in progress and the third
\* source is still waiting to be started.
C2_Witness ==
    /\ pc = "poll"
    /\ Len(news_sources) = 3
    /\ Cardinality(in_progress) = 2
    /\ next_source = 3

\* ---------------------------------------------------------------- C3
\* C3: in every cycle request_news_source is called exactly once for each
\* configured source, whatever the other requests of the cycle or of
\* earlier cycles returned: never twice for a source, and once the fan-out
\* is over no source was left out.
C3_ExactlyNAttempts ==
    /\ \A s \in SourceIds :
          attempts[s] <= (IF s \in Range(news_sources) THEN 1 ELSE 0)
    /\ (AfterFanOut \/ main_result = "generate_image error")
          => \A s \in Range(news_sources) : attempts[s] = 1

\* The fan-out of a later cycle is over with three sources, of which one
\* failed, one had no story and one returned a story.
C3_Witness ==
    /\ pc = "dedup"
    /\ Len(news_sources) = 3
    /\ seen_news_urls # {}
    /\ \E s1, s2, s3 \in Range(news_sources) :
          /\ fetch_result[s1].tag = "Err"
          /\ fetch_result[s2].tag = "None"
          /\ fetch_result[s3].tag = "Some"
    /\ \A s \in Range(news_sources) : attempts[s] = 1

\* ---------------------------------------------------------------- C4
\* C4: a failed request is logged and not raised, and takes nothing away
\* from the cycle: the list handed to the publish loop holds exactly the
\* stories returned by the sources that did not fail whose story_url is
\* new, and the publish loop is entered with it.
C4_FetchFailureIsolation ==
    /\ [](SourcesFailed # {} /\ pc \in {"poll", "dedup"}
            => /\ main_result = "running"
               /\ \A s \in SourcesFailed : <<"news", s>> \in log)
    /\ [][pc = "dedup" =>
            /\ main_result' = "running"
            /\ Urls(cur_stories') =
                 {fetch_result[s].story.story_url : s \in SourcesWithStory}
                     \ seen_news_urls
            /\ \A i \in 1..Len(cur_stories') :
                  \E s \in SourcesWithStory :
                      fetch_result[s].story = cur_stories'[i]
            /\ cur_stories' # <<>> => pc' = "render" /\ story_idx' = 1
         ]_vars

\* Scenario C: of two sources the first failed and the second returned a
\* new story, and the publish loop is about to render exactly that story.
C4_Witness ==
    /\ pc = "render"
    /\ Len(news_sources) = 2
    /\ fetch_result[1].tag = "Err"
    /\ fetch_result[2].tag = "Some"
    /\ cur_stories = <<fetch_result[2].story>>
    /\ <<"news", 1>> \in log

\* ---------------------------------------------------------------- C5
\* C5: a failure of generate_image for one story does not keep the rest of
\* the cycle's list from being rendered: when the cycle is over, by the
\* sleep or by main returning, generate_image was called for every story of
\* the list.
C5_RenderFailureIsolation ==
    (pc \in {"sleep", "exited"} /\ main_result # "load_config error")
        => \A i \in 1..Len(cur_stories) : i \in Range(rendered)

\* ---------------------------------------------------------------- C6
\* C6: a failure of create_post for one story is logged and the loop goes
\* on: the step in which the failed post returns leaves main running with
\* the list untouched and moves to the render of the next story (or to the
\* sleep after the last one), and a cycle that reaches its sleep has
\* rendered and posted every story of its list, in order, whichever posts
\* failed.
C6_PublishFailureIsolation ==
    /\ [][(pc = "await_post" /\ log' # log) =>
            /\ main_result' = "running"
            /\ cur_stories' = cur_stories
            /\ <<"tumblr", story_idx>> \in log'
            /\ story_idx' = story_idx + 1
            /\ pc' = (IF story_idx < Len(cur_stories) THEN "render" ELSE "sleep")
         ]_vars
    /\ [](pc = "sleep" =>
            /\ rendered = Positions(Len(cur_stories))
            /\ posted = Positions(Len(cur_stories)))

\* The post of the first of two stories failed, and the second story has
\* been rendered and posted all the same.
C6_Witness ==
    /\ pc = "sleep"
    /\ Len(cur_stories) = 2
    /\ <<"tumblr", 1>> \in log
    /\ rendered = <<1, 2>>
    /\ posted = <<1, 2>>

\* ---------------------------------------------------------------- C7
\* C7: once the loop has started nothing ends the process: main only ever
\* returns with the error of load_config, before the first cycle.
C7_NoExitInLoop ==
    pc = "exited" => main_result = "load_config error"

\* ---------------------------------------------------------------- C8
\* C8: with every call returning and every sleep elapsing, a cycle that is
\* under way is always followed by the start of a new fan-out.
C8_CyclesForever ==
    AfterFanOut ~> (pc = "poll" /\ next_source = 1 /\ in_progress = {})

\* ---------------------------------------------------------------- C9
\* C9: the dedup filter is exact: of the collected stories, every one whose
\* story_url was never accepted passes and is handed to the publish loop,
\* and every one whose story_url is in the seen set is dropped; nothing is
\* rendered or posted beyond the stories that passed, so a cycle in which
\* every returned story_url was seen makes no generate_image and no
\* create_post call.
C9_DedupExact ==
    /\ [][pc = "dedup" =>
            /\ \A i \in 1..Len(collected) :
                  collected[i].story_url \in Urls(cur_stories')
                      <=> collected[i].story_url \notin seen_news_urls
            /\ Urls(cur_stories') \subseteq Urls(collected)
            /\ pc' = (IF Urls(collected) \subseteq seen_news_urls
                      THEN "sleep" ELSE "render")
         ]_vars
    /\ [](/\ Range(rendered) \subseteq 1..Len(cur_stories)
          /\ Range(posted) \subseteq 1..Len(cur_stories)
          /\ pc = "sleep" => Len(posted) = Len(cur_stories))

\* Scenario A, second cycle: two sources returned two different story_urls,
\* both accepted in an earlier cycle, and the cycle reached its sleep
\* without a story, a render or a post.
C9_Witness ==
    /\ pc = "sleep"
    /\ Len(news_sources) = 2
    /\ fetch_result[1].tag = "Some"
    /\ fetch_result[2].tag = "Some"
    /\ fetch_result[1].story.story_url # fetch_result[2].story.story_url
    /\ accepted[fetch_result[1].story.story_url] = 1
    /\ accepted[fetch_result[2].story.story_url] = 1
    /\ cur_stories = <<>>
    /\ rendered = <<>>
    /\ posted = <<>>

\* ---------------------------------------------------------------- C10
\* C10: the publish loop is sequential: at most one post is in flight, none
\* while a story is being rendered or about to be posted, and the render of
\* a story starts only after the posts of all the stories before it were
\* sent and have returned.
C10_SequentialDispatch ==
    /\ Cardinality(posts_in_flight) <= 1
    /\ pc \in {"render", "post"} => posts_in_flight = {}
    /\ pc = "render" =>
          /\ rendered = Positions(story_idx - 1)
          /\ posted = Positions(story_idx - 1)
    /\ pc = "await_post" => posts_in_flight = {story_idx}

\* The post of the second story of the list is in flight, after the first
\* was rendered, posted and returned.
C10_Witness ==
    /\ pc = "await_post"
    /\ story_idx = 2
    /\ posts_in_flight = {2}
    /\ rendered = <<1, 2>>

\* ---------------------------------------------------------------- C11
\* The postprocess rules of the specification, in configuration order; the
\* Config of main.rs has no field for them. Each rule's replacement is the
\* next rule's pattern, as in the chain foo -> bar -> baz -> qux.
PostprocessRules ==
    <<[pattern |-> "Headline 1", replacement |-> "Headline 2"],
      [pattern |-> "Headline 2", replacement |-> "Headline 3"],
      [pattern |-> "Headline 3", replacement |-> "Headline 4"]>>

\* One rule applied to a text: every match of the pattern is replaced. The
\* texts explored are single headlines and the patterns literal headlines,
\* so a text either is one match or holds none.
ApplyRule(text, rule) ==
    IF text = rule.pattern THEN rule.replacement ELSE text

\* Every rule applied in order.
RECURSIVE Postprocess(_, _)
Postprocess(text, rules) ==
    IF rules = <<>> THEN text
    ELSE Postprocess(ApplyRule(text, Head(rules)), Tail(rules))

\* C11: the text generate_image was given for a story is the story's
\* fetched headline after every postprocess rule was applied to it in
\* order.
C11_RenderedTextPostprocessed ==
    pc = "post" =>
        image_data = Postprocess(cur_stories[story_idx].headline,
                                 PostprocessRules)

\* ---------------------------------------------------------------- C12
\* C12: the seen set only grows: every step leaves it a superset of what it
\* was, across cycles and whatever a render or a post returned.
C12_SeenSetGrows ==
    [][seen_news_urls \subseteq seen_news_urls']_vars

\* A later cycle has started with the seen set still holding the story_url
\* accepted in an earlier cycle.
C12_Witness ==
    /\ pc = "poll"
    /\ next_source = 1
    /\ seen_news_urls # {}
    /\ \E u \in seen_news_urls : accepted[u] = 1

\* ---------------------------------------------------------------- C13
\* The scheduler phase main is in. No place of the loop body corresponds to
\* a postprocessing phase: the dedup filter is followed by the is_empty
\* test and the publish loop.
Phase ==
    CASE pc = "start" -> "Idle"
      [] pc = "poll" -> "Fetching"
      [] pc = "dedup" -> "Deduping"
      [] pc \in {"render", "post", "await_post"} -> "Publishing"
      [] pc = "sleep" -> "Sleeping"
      [] OTHER -> "Fatal"

\* C13: apart from the steps that end in Fatal, the phase changes only
\* along Idle -> Fetching -> Deduping -> Postprocessing -> Publishing ->
\* Sleeping -> Fetching, in every cycle.
C13_PhaseOrder ==
    [][(Phase' # Phase /\ Phase' # "Fatal") =>
          <<Phase, Phase'>> \in
              {<<"Idle", "Fetching">>, <<"Fetching", "Deduping">>,
               <<"Deduping", "Postprocessing">>,
               <<"Postprocessing", "Publishing">>,
               <<"Publishing", "Sleeping">>, <<"Sleeping", "Fetching">>}
      ]_vars

\* ---------------------------------------------------------------- C14
\* The errors that come from reading or loading a configured resource: the
\* two config files, and the template image named by image_gen_cfg.
ResourceLoadErrors ==
    LoadConfigErrors \cup
        {"failed to open template image file", "failed to load template image"}

\* C14: a failure to read or load a configured resource ends the process
\* only before the loop: when main has returned with such an error, no
\* request, render or post was ever attempted.
C14_ConfigFailureOnlyAtStartup ==
    (pc = "exited" /\ error_context \in ResourceLoadErrors) =>
        /\ \A s \in SourceIds : attempts[s] = 0
        /\ rendered = <<>>
        /\ posted = <<>>
        /\ seen_news_urls = {}

\* ------------------------------------------------- news.rs: the decoding
\* The keys an "asset" object is explored with: the three of
\* BBCApiResponseAsset (camelCase) and one the struct does not know.
AssetKeys == {"assetId", "assetUri", "headline", "section"}

\* The JSON values explored for the "asset" key: absent, null, a string, or
\* an object with some of AssetKeys. `value` holds the strings of the keys
\* that are present.
AssetJsons ==
    {[kind |-> k, fields |-> {}, value |-> NoAsset] :
        k \in {"missing", "null", "string", "object"}}
    \cup {[kind |-> "object", fields |-> f, value |-> a] :
            f \in (SUBSET AssetKeys) \ {{}}, a \in Assets}

\* The response bodies explored: the asset, with or without the other
\* top-level keys the endpoint sends.
Bodies ==
    {[top |-> t, asset |-> a] :
        t \in SUBSET {"isError", "pollPeriod"}, a \in AssetJsons}

\* Variant of object_empty_as_none that is a plain Option<T>: null is None,
\* an object must be a T.
object_as_option(json) ==
    CASE json.kind = "object"
            /\ {"assetId", "assetUri", "headline"} \subseteq json.fields
            -> [kind |-> "asset", asset |-> json.value]
      [] json.kind = "null" -> [kind |-> "empty", asset |-> NoAsset]
      [] OTHER -> [kind |-> "error", asset |-> NoAsset]

\* object_empty_as_none: the untagged Aux tries T (an object with the three
\* keys; other keys are ignored), then Empty (an object with no key at
\* all, deny_unknown_fields), then Null; anything else is a decode error.
object_empty_as_none(json) ==
    CASE json.kind = "object"
            /\ {"assetId", "assetUri", "headline"} \subseteq json.fields
            -> [kind |-> "asset", asset |-> json.value]
      [] json.kind = "object" /\ json.fields = {}
            -> [kind |-> "empty", asset |-> NoAsset]
      [] json.kind = "null" -> [kind |-> "empty", asset |-> NoAsset]
      [] OTHER -> [kind |-> "error", asset |-> NoAsset]

\* .json::<BBCApiResponse>(): "asset" is required and decoded with
\* object_empty_as_none; other top-level keys are ignored.
DecodeBBCApiResponse(body) ==
    IF body.asset.kind = "missing"
    THEN [kind |-> "error", asset |-> NoAsset]
    ELSE object_empty_as_none(body.asset)

\* One response body, not yet decoded; main has not started.
InitDecode ==
    /\ pc = "start"
    /\ main_result = "running"
    /\ news_sources = <<>>
    /\ seen_news_urls = {}
    /\ next_source = 1
    /\ in_progress = {}
    /\ collected = <<>>
    /\ cur_stories = <<>>
    /\ story_idx = 1
    /\ image_data = ""
    /\ posts_in_flight = {}
    /\ attempts = [s \in SourceIds |-> 0]
    /\ fetch_result = [s \in SourceIds |-> Pending]
    /\ rendered = <<>>
    /\ posted = <<>>
    /\ log = {}
    /\ accepted = [u \in StoryUrls |-> 0]
    /\ completed = <<>>
    /\ error_context = ""
    /\ response_body \in Bodies
    /\ response_result = Pending
    /\ attachments = <<>>
    /\ sleep_secs = 0
    /\ publisher_calls = [u \in StoryUrls |-> [count |-> 0, failed |-> FALSE]]
    /\ font_size = 0
    /\ shrink_pc = "idle"
    /\ shrink_input = NoShrinkInput

\* request_news_source on that body: decode, then build the result.
DecodeResponse ==
    /\ response_body # NoBody
    /\ response_result = Pending
    /\ response_result' =
          request_news_source(DecodeBBCApiResponse(response_body))
    /\ UNCHANGED <<pc, main_result, news_sources, seen_news_urls, next_source,
                   in_progress, collected, cur_stories, story_idx, image_data,
                   posts_in_flight, attempts, fetch_result, rendered, posted,
                   log, accepted, completed, error_context, response_body>>
    /\ UNCHANGED <<attachments, sleep_secs, publisher_calls, font_size,
                   shrink_pc, shrink_input>>

NextDecode == DecodeResponse

DecodeSpec == InitDecode /\ [][NextDecode]_vars

\* ---------------------------------------------------------------- C15
\* C15: for a body that decodes, an asset that is {} or null gives Ok(None);
\* an asset with assetId, assetUri and headline gives Ok(Some(story)) with
\* id = "BBC_" + assetId, headline = headline and story_url =
\* "https://bbc.co.uk" + assetUri; and the other top-level keys of the
\* body make no difference to the result.
C15_ResultMapping ==
    response_result # Pending =>
        LET asset == response_body.asset IN
        /\ (asset.kind = "null" \/ (asset.kind = "object" /\ asset.fields = {}))
              => response_result = [tag |-> "None", story |-> NoStory]
        /\ (asset.kind = "object"
              /\ {"assetId", "assetUri", "headline"} \subseteq asset.fields)
              => /\ response_result.tag = "Some"
                 /\ response_result.story.id = "BBC_" \o asset.value.assetId
                 /\ response_result.story.headline = asset.value.headline
                 /\ response_result.story.story_url =
                        "https://bbc.co.uk" \o asset.value.assetUri
        /\ response_result =
              request_news_source(
                  DecodeBBCApiResponse([response_body EXCEPT !.top = {}]))

\* The body of the test decode_bbc_response_empty was decoded: isError,
\* pollPeriod and an empty asset object, giving Ok(None).
C15_Witness ==
    /\ response_body.top = {"isError", "pollPeriod"}
    /\ response_body.asset.kind = "object"
    /\ response_body.asset.fields = {}
    /\ response_result.tag = "None"

\* ---------------------------------------------------------------- C16
\* C16: the fan-out is work-conserving: whenever main waits for a request
\* to complete, or ends the collection, every place of the buffer that a
\* source not yet started could take is taken: the requests in progress
\* are 2, or all the sources not yet completed if those are fewer.
C16_WorkConserving ==
    [][(pc = "poll" /\ (completed' # completed \/ pc' = "dedup")) =>
          Cardinality(in_progress) =
              Min(2, Len(news_sources) - Len(completed))
      ]_vars

\* Of three sources one has completed, and the third was started in its
\* place: two requests are in progress again.
C16_Witness ==
    /\ pc = "poll"
    /\ Len(news_sources) = 3
    /\ Len(completed) = 1
    /\ Cardinality(in_progress) = 2
    /\ 3 \in in_progress

\* ---------------------------------------------------------------- C17
\* The stories returned by the given sources, in the order of the sources.
RECURSIVE StoriesOf(_)
StoriesOf(sources) ==
    IF sources = <<>> THEN <<>>
    ELSE (IF fetch_result[Head(sources)].tag = "Some"
          THEN <<fetch_result[Head(sources)].story>> ELSE <<>>)
         \o StoriesOf(Tail(sources))

\* C17: the collected list holds the stories in the order in which their
\* requests completed, whatever the order of the sources in the
\* configuration.
C17_CompletionOrder ==
    collected = StoriesOf(completed)

\* The request of the second source completed before that of the first,
\* both with a story, and the second source's story is first in the list.
C17_Witness ==
    /\ Len(completed) >= 2
    /\ completed[1] = 2
    /\ completed[2] = 1
    /\ fetch_result[1].tag = "Some"
    /\ fetch_result[2].tag = "Some"
    /\ fetch_result[1].story # fetch_result[2].story
    /\ collected = <<fetch_result[2].story, fetch_result[1].story>>

\* ---------------------------------------------------------------- C18
\* The positions of the collected list whose story has a story_url that is
\* neither seen nor carried by a story collected before it.
FirstNewPositions ==
    {i \in 1..Len(collected) :
        /\ collected[i].story_url \notin seen_news_urls
        /\ \A j \in 1..(i - 1) :
              collected[j].story_url # collected[i].story_url}

\* The k-th smallest element of a set of numbers.
Nth(S, k) == CHOOSE i \in S : Cardinality({j \in S : j <= i}) = k

\* C18: the dedup filter keeps the collected stories in their relative
\* order, and of the stories that share a story_url the one collected first;
\* the publish loop renders and posts the kept stories in that same order.
C18_DownstreamOrder ==
    /\ [][pc = "dedup" =>
            /\ Len(cur_stories') = Cardinality(FirstNewPositions)
            /\ \A k \in 1..Len(cur_stories') :
                  cur_stories'[k] = collected[Nth(FirstNewPositions, k)]
         ]_vars
    /\ [](/\ rendered = Positions(Len(rendered))
          /\ posted = Positions(Len(posted))
          /\ pc = "post" => image_data = cur_stories[Len(rendered)].headline)

\* Three stories were collected, the first and the third with the same
\* story_url; the first and the second were kept and published in that
\* order.
C18_Witness ==
    /\ pc = "sleep"
    /\ Len(collected) = 3
    /\ collected[1].story_url = collected[3].story_url
    /\ collected[1] # collected[3]
    /\ collected[2].story_url # collected[1].story_url
    /\ cur_stories = <<collected[1], collected[2]>>
    /\ rendered = <<1, 2>>
    /\ posted = <<1, 2>>

\* ---------------------------------------------------------------- C19
\* C19: a request that fails or returns no story contributes nothing: its
\* completion leaves the collected list and the seen set as they were, the
\* dedup filter adds only story_urls returned by requests that had a story,
\* and no more stories are kept, rendered or posted in a cycle than
\* requests returned a story (none at all when every request failed or
\* came back empty).
C19_NoStoryNoEffect ==
    /\ [][(pc = "poll" /\ completed' # completed
              /\ fetch_result'[completed'[Len(completed')]].tag
                    \in {"Err", "None"})
            => /\ collected' = collected
               /\ seen_news_urls' = seen_news_urls
               /\ rendered' = rendered
               /\ posted' = posted
         ]_vars
    /\ [][pc = "dedup" =>
            seen_news_urls' \ seen_news_urls \subseteq
                {fetch_result[s].story.story_url : s \in SourcesWithStory}
         ]_vars
    /\ [](/\ Len(cur_stories) <= Cardinality(SourcesWithStory)
          /\ Len(rendered) <= Cardinality(SourcesWithStory)
          /\ Len(posted) <= Cardinality(SourcesWithStory))

\* A cycle of two sources, one failed and one without a story, reached its
\* sleep with the seen set still empty and nothing rendered or posted.
C19_Witness ==
    /\ pc = "sleep"
    /\ Len(news_sources) = 2
    /\ fetch_result[1].tag = "Err"
    /\ fetch_result[2].tag = "None"
    /\ seen_news_urls = {}
    /\ cur_stories = <<>>
    /\ rendered = <<>>
    /\ posted = <<>>

\* ---------------------------------------------------------------- C20
\* C20: the seen set changes only in the dedup filter: every step taken
\* outside it, in particular every step with a request or a post in flight
\* and every render, post return and sleep step, leaves it as it was.
C20_SeenSetOnlyInDedup ==
    [][(pc # "dedup" \/ in_progress # {} \/ posts_in_flight # {})
          => seen_news_urls' = seen_news_urls]_vars

\* A request has returned a story whose story_url is new while another is
\* still in flight, and the seen set does not hold that story_url yet.
C20_Witness ==
    /\ pc = "poll"
    /\ in_progress # {}
    /\ \E s \in SourcesWithStory :
          fetch_result[s].story.story_url \notin seen_news_urls

\* ---------------------------------------------------------------- C21
\* C21 -- render-then-publish per item: whenever main is about to call
\* create_post, the last generate_image call was made for the same story,
\* returned Ok and left that story's rendering in image_data; every
\* create_post of the cycle was made for a story rendered at the same place
\* in the cycle and had that story's rendering attached; and a story whose
\* generate_image returned Err has had no create_post.
C21_RenderThenPublish ==
    /\ pc = "post" =>
          /\ Len(rendered) = Len(posted) + 1
          /\ rendered[Len(rendered)] = story_idx
          /\ image_data = cur_stories[story_idx].headline
    /\ Len(attachments) = Len(posted)
    /\ Len(posted) <= Len(rendered)
    /\ \A k \in 1..Len(posted) :
          /\ rendered[k] = posted[k]
          /\ attachments[k] = cur_stories[posted[k]].headline
    /\ main_result = "generate_image error" =>
          /\ rendered # <<>>
          /\ rendered[Len(rendered)] \notin Range(posted)

\* Two stories with different headlines were each rendered and then posted
\* in one cycle.
C21_Witness ==
    /\ pc = "await_post"
    /\ posted = <<1, 2>>
    /\ cur_stories[1].headline # cur_stories[2].headline
    /\ attachments = <<cur_stories[1].headline, cur_stories[2].headline>>

\* ---------------------------------------------------------------- C23
\* C23 -- fetch barrier: a request is in progress only while main is in the
\* fan-out; from the dedup filter to the end of the sleep, and after main
\* returned, every configured source's request of the cycle was started,
\* has completed and has a result, and every Ok(Some(story)) is in the
\* collected vector; so no request is in progress while a create_post is.
C23_FetchBarrier ==
    /\ in_progress # {} => pc = "poll"
    /\ (AfterFanOut \/ main_result = "generate_image error") =>
          /\ next_source > Len(news_sources)
          /\ Len(completed) = Len(news_sources)
          /\ Range(completed) = Range(news_sources)
          /\ \A s \in Range(news_sources) : fetch_result[s] # Pending
          /\ Len(collected) = Cardinality(SourcesWithStory)
    /\ posts_in_flight # {} => in_progress = {}

\* A create_post is in flight in a cycle of three sources that comes after
\* a cycle in which another story was posted: all three requests are over.
C23_Witness ==
    /\ pc = "await_post"
    /\ posts_in_flight # {}
    /\ Len(news_sources) = 3
    /\ Len(completed) = 3
    /\ \E u \in StoryUrls :
          /\ publisher_calls[u].count = 1
          /\ u \notin Urls(cur_stories)

\* ---------------------------------------------------------------- C22
\* C22 -- one sleep of a fixed duration between consecutive cycles: main is
\* in a sleep of SleepSeconds exactly when it is at the sleep of the loop
\* body; the fan-out of a cycle starts only out of load_config or out of
\* that sleep, when every story of the cycle before was rendered and posted
\* and no create_post is in flight; and the sleep leads nowhere but to the
\* next fan-out -- whether or not the cycle had sources or new stories.
C22_OneSleepBetweenCycles ==
    /\ [](sleep_secs = IF pc = "sleep" THEN SleepSeconds ELSE 0)
    /\ [][(pc' = "poll" /\ pc # "poll") =>
             \/ pc = "start"
             \/ /\ pc = "sleep"
                /\ sleep_secs = SleepSeconds
                /\ in_progress = {}
                /\ posts_in_flight = {}
                /\ rendered = Positions(Len(cur_stories))
                /\ posted = Positions(Len(cur_stories))]_vars
    /\ [][pc = "sleep" => pc' \in {"sleep", "poll"}]_vars

\* main sleeps at the end of a cycle that had sources but found no new
\* story, after a cycle in which a story was posted.
C22_Witness ==
    /\ pc = "sleep"
    /\ sleep_secs = SleepSeconds
    /\ news_sources # <<>>
    /\ cur_stories = <<>>
    /\ posted = <<>>
    /\ \E u \in StoryUrls : publisher_calls[u].count = 1

\* ---------------------------------------------------------------- C24
\* C24 -- at most one create_post per story_url in the lifetime of the
\* process: the story_url of every story that is or was rendered or posted
\* in this cycle is in the seen set, and was put there by the dedup filter
\* before the first generate_image call; no story is rendered or posted
\* twice in a cycle; a story_url never has more than one create_post call,
\* failed or not; and a story_url whose create_post was made in an earlier
\* cycle is not among the stories of this cycle.
C24_AtMostOncePerKey ==
    /\ \A u \in StoryUrls :
          /\ publisher_calls[u].count <= 1
          /\ publisher_calls[u].count = 1 => u \in seen_news_urls
          /\ publisher_calls[u].failed => publisher_calls[u].count = 1
          /\ (publisher_calls[u].count = 1 /\ u \in Urls(cur_stories)) =>
                \E k \in Range(posted) : cur_stories[k].story_url = u
    /\ Urls(cur_stories) \subseteq seen_news_urls
    /\ \A i, j \in 1..Len(rendered) : rendered[i] = rendered[j] => i = j
    /\ \A i, j \in 1..Len(posted) :
          cur_stories[posted[i]].story_url = cur_stories[posted[j]].story_url
              => i = j

\* A source returned again the story_url whose create_post failed in an
\* earlier cycle: the story was dropped and the cycle went to its sleep
\* without a create_post.
C24_Witness ==
    /\ pc = "sleep"
    /\ cur_stories = <<>>
    /\ \E s \in Range(news_sources) :
          /\ fetch_result[s].tag = "Some"
          /\ publisher_calls[fetch_result[s].story.story_url].failed
          /\ publisher_calls[fetch_result[s].story.story_url].count = 1

\* ============================================================= image.rs
\* The font-shrinking loop of generate_image, on its own: one call with a
\* configuration and a text, from desc.set_size(max_font_size * pango_scale)
\* to the break of the loop.  Font sizes are counted in units of
\* pango_scale, lengths in pixels; a glyph of a font of size s is taken to
\* be s pixels wide and a line s pixels high.
Max(a, b) == IF a > b THEN a ELSE b

CeilDiv(a, b) == (a + b - 1) \div b

\* What generate_image is called with: headline_bounds and max_font_size
\* of the ImageGenConfig, and the length of the text.
ShrinkInputs ==
    [max_font_size : 1..MaxFontSize,
     bounds_width  : 1..MaxBoundsSide,
     bounds_height : 1..MaxBoundsSide,
     text_len      : 0..MaxTextLen]

\* The lines of the layout at a font size of at least one unit, with
\* set_width(headline_bounds.width) and WrapMode::WordChar: a line takes as
\* many characters as fit the width and at least one; an empty text is one
\* line.
LayoutLines(size, input) ==
    IF input.text_len = 0
    THEN 1
    ELSE CeilDiv(input.text_len, Max(1, input.bounds_width \div size))

\* layout.pixel_extents(): the heights the logical rectangle can have.  At
\* a font size of zero the layout has either empty extents or those of the
\* smallest font pango falls back to.
PixelExtentsHeights(size, input) ==
    IF size >= 1
    THEN {LayoutLines(size, input) * size}
    ELSE {0, LayoutLines(1, input)}

\* desc.set_size(size): pango leaves the description as it is when the
\* size is negative.
set_size(old, size) == IF size >= 0 THEN size ELSE old

\* generate_image was called and has reached the loop: desc has the size
\* max_font_size.  main is not modelled here.
InitShrink ==
    /\ pc = "start"
    /\ main_result = "running"
    /\ news_sources = <<>>
    /\ seen_news_urls = {}
    /\ next_source = 1
    /\ in_progress = {}
    /\ collected = <<>>
    /\ cur_stories = <<>>
    /\ story_idx = 1
    /\ image_data = ""
    /\ posts_in_flight = {}
    /\ attempts = [s \in SourceIds |-> 0]
    /\ fetch_result = [s \in SourceIds |-> Pending]
    /\ rendered = <<>>
    /\ posted = <<>>
    /\ log = {}
    /\ accepted = [u \in StoryUrls |-> 0]
    /\ completed = <<>>
    /\ error_context = ""
    /\ response_body = NoBody
    /\ response_result = Pending
    /\ attachments = <<>>
    /\ sleep_secs = 0
    /\ publisher_calls = [u \in StoryUrls |-> [count |-> 0, failed |-> FALSE]]
    /\ shrink_input \in ShrinkInputs
    /\ font_size = set_size(0, shrink_input.max_font_size)
    /\ shrink_pc = "loop"

\* if logical_pixel_bounds.height() > config.headline_bounds.height
\*     { desc.set_size(desc.size() - pango_scale); .. }
ShrinkFont ==
    /\ shrink_pc = "loop"
    /\ \E h \in PixelExtentsHeights(font_size, shrink_input) :
          h > shrink_input.bounds_height
    /\ font_size' = set_size(font_size, font_size - 1)
    /\ UNCHANGED <<pc, main_result, news_sources, seen_news_urls, next_source,
                   in_progress, collected, cur_stories, story_idx, image_data,
                   posts_in_flight, attempts, fetch_result, rendered, posted,
                   log, accepted, completed, error_context, response_body,
                   response_result>>
    /\ UNCHANGED <<attachments, sleep_secs, publisher_calls, shrink_pc,
                   shrink_input>>

\* else { break; }
ShrinkBreak ==
    /\ shrink_pc = "loop"
    /\ \E h \in PixelExtentsHeights(font_size, shrink_input) :
          h <= shrink_input.bounds_height
    /\ shrink_pc' = "done"
    /\ UNCHANGED <<pc, main_result, news_sources, seen_news_urls, next_source,
                   in_progress, collected, cur_stories, story_idx, image_data,
                   posts_in_flight, attempts, fetch_result, rendered, posted,
                   log, accepted, completed, error_context, response_body,
                   response_result>>
    /\ UNCHANGED <<attachments, sleep_secs, publisher_calls, font_size,
                   shrink_input>>

NextShrink ==
    \/ ShrinkFont
    \/ ShrinkBreak

\* The loop is straight-line code of one task: it keeps running.
ShrinkSpec == InitShrink /\ [][NextShrink]_vars /\ WF_vars(NextShrink)

\* ---------------------------------------------------------------- C25
\* C25 -- the shrinking loop ends for every text and every bounds, with a
\* positive font size: while the loop runs and when it has ended the font
\* size is at least one unit, every iteration that goes round again has
\* taken exactly one unit off the font size, the loop ends only when the
\* height of the layout is at most headline_bounds.height, and the loop
\* does end.
C25_ShrinkLoopEndsPositive ==
    /\ [](shrink_pc \in {"loop", "done"} => font_size >= 1)
    /\ [][(shrink_pc = "loop" /\ shrink_pc' = "loop") =>
             font_size' = font_size - 1]_vars
    /\ [][(shrink_pc = "loop" /\ shrink_pc' = "done") =>
             \E h \in PixelExtentsHeights(font_size, shrink_input) :
                h <= shrink_input.bounds_height]_vars
    /\ <>(shrink_pc = "done")

====
